---- MODULE Spec2Model ----
(***************************************************************************)
(* State-machine model of the SSE channel (SseChannel): the connection     *)
(* registry, the bounded replay history and the frame formatting and       *)
(* broadcast logic.                                                        *)
(*                                                                         *)
(* A response object is a member of Conns.  written[c] is the stream of    *)
(* chunks handed to c.write(), oldest first; each chunk carries two ghost  *)
(* fields (kind, n) that say which call produced it and, for chunks that   *)
(* come from a send, the ordinal of that send call.  History entries carry *)
(* the same ordinal as a ghost field n.  The ghost fields are never read   *)
(* by the modelled code.                                                   *)
(***************************************************************************)
EXTENDS Integers, Sequences, FiniteSets, TLC

VARIABLES
    historySize,      \* this.historySize
    jsonEncode,       \* this.jsonEncode
    retryTimeout,     \* this.retryTimeout (0 stands for null)
    seeded,           \* ghost: the ids of the history as constructed, oldest first
    history,          \* this.history, most recent entry first
    connections,      \* this.connections, in push order
    connectionCount,  \* this.connectionCount
    written,          \* per response object: the chunks written to it
    handlers,         \* per response object: close/end/finish listeners not yet fired
    ended,            \* response objects on which end() has been called
    broken,           \* response objects whose write() throws
    calls,            \* ghost: the send calls made so far, calls[n] is the n-th
    nbeat,            \* number of ping and retry calls made so far
    closing,          \* the completion of close(callback): see libClose
    outcome           \* what the last call let its caller observe

vars == <<historySize, jsonEncode, retryTimeout, seeded, history, connections,
          connectionCount, written, handlers, ended, broken, calls, nbeat, closing,
          outcome>>

config == <<historySize, jsonEncode, retryTimeout, seeded>>

-----------------------------------------------------------------------------
(* Bounds of the model *)

MaxSends == 2         \* send calls in Spec
MaxDeliveries == 2    \* send calls in SpecDeliver
MaxPrivateSends == 3  \* send calls in SpecPrivate
MaxFaultSends == 2    \* send calls in SpecFault
MaxBeats == 1         \* ping and retry calls
MaxChurnSends == 1    \* send calls in SpecChurn
MaxAccessSends == 2   \* send calls in SpecAccess
MaxBeatSends == 2     \* send calls in SpecBeat
MaxTextLen == 3       \* characters of a payload in SpecFormat
MaxReplaySends == 3   \* send calls in SpecReplay
MaxGoneSends == 1     \* send calls in SpecGone
MaxHistorySize == 2   \* largest historySize option

(* Program constants *)

DefaultHistorySize == 500
PreambleLength == 2056

-----------------------------------------------------------------------------
(* Input domains *)

Conns == {"r1", "r2"}
Signals == {"close", "end", "finish"}

Undef == -1
Truthy(v) == v # Undef /\ v # 0

\* A header or query value is a string: Empty stands for '', and every other
\* value that is given, "0" included, is a non-empty string, which is truthy.
Empty == -2
Given(v) == v # Undef /\ v # Empty

Ids == {1, 2, 3}
MsgIds == {Undef, 0} \cup Ids
ResumeIds == {Undef, 0} \cup Ids
RetryHints == {1000}

StringMsg(t) == [type |-> "string", text |-> t, id |-> Undef, event |-> "", retry |-> 0]
ObjectMsg(i, d, e, r) == [type |-> "object", text |-> d, id |-> i, event |-> e, retry |-> r]

-----------------------------------------------------------------------------
(* Sequence helpers *)

Range(s) == {s[i] : i \in 1..Len(s)}

RECURSIVE Reverse(_)
Reverse(s) == IF s = <<>> THEN <<>> ELSE Append(Reverse(Tail(s)), Head(s))

RECURSIVE SeqsUpTo(_, _)
SeqsUpTo(S, n) ==
    IF n = 0 THEN {<<>>}
    ELSE LET shorter == SeqsUpTo(S, n - 1)
         IN  shorter \cup {Append(s, x) : s \in shorter, x \in S}

Distinct(s) == \A i, j \in 1..Len(s) : i # j => s[i] # s[j]

RECURSIVE Rep(_, _)
Rep(s, n) ==
    IF n = 0 THEN ""
    ELSE IF n % 2 = 0 THEN LET h == Rep(s, n \div 2) IN h \o h
    ELSE s \o Rep(s, n - 1)

RECURSIVE Str(_)
Str(cs) == IF cs = <<>> THEN "" ELSE Head(cs) \o Str(Tail(cs))

-----------------------------------------------------------------------------
(* Frame formatting: parseTextData and parseMessage *)

\* Mutant: every \r and every \n is replaced on its own, \r\n gives two breaks
RECURSIVE NormalizeEachChar(_)
NormalizeEachChar(cs) ==
    IF cs = <<>> THEN <<>>
    ELSE IF Head(cs) = "\r" \/ Head(cs) = "\n"
         THEN <<"\n">> \o NormalizeEachChar(Tail(cs))
    ELSE <<Head(cs)>> \o NormalizeEachChar(Tail(cs))

\* String(text).replace(/(\r\n|\r|\n)/g, '\n')
RECURSIVE NormalizeNewlines(_)
NormalizeNewlines(cs) ==
    IF cs = <<>> THEN <<>>
    ELSE IF Head(cs) = "\r" /\ Len(cs) >= 2 /\ cs[2] = "\n"
         THEN <<"\n">> \o NormalizeNewlines(Tail(Tail(cs)))
    ELSE IF Head(cs) = "\r" \/ Head(cs) = "\n"
         THEN <<"\n">> \o NormalizeNewlines(Tail(cs))
    ELSE <<Head(cs)>> \o NormalizeNewlines(Tail(cs))

\* data.split(/\n/): always at least one line, the empty text gives one empty line
RECURSIVE SplitLines(_)
SplitLines(cs) ==
    IF cs = <<>> THEN << <<>> >>
    ELSE LET rest == SplitLines(Tail(cs))
         IN  IF Head(cs) = "\n" THEN << <<>> >> \o rest
             ELSE << <<Head(cs)>> \o Head(rest) >> \o Tail(rest)

RECURSIVE DataLines(_)
DataLines(lines) ==
    IF Len(lines) = 1 THEN "data: " \o Str(lines[1]) \o "\n\n"
    ELSE "data: " \o Str(Head(lines)) \o "\n" \o DataLines(Tail(lines))

parseTextData(text) == DataLines(SplitLines(NormalizeNewlines(text)))

\* JSON.stringify of a string value
RECURSIVE JsonEscape(_)
JsonEscape(cs) ==
    IF cs = <<>> THEN <<>>
    ELSE (CASE Head(cs) = "\n" -> <<"\\", "n">>
            [] Head(cs) = "\r" -> <<"\\", "r">>
            [] Head(cs) = "\"" -> <<"\\", "\"">>
            [] Head(cs) = "\\" -> <<"\\", "\\">>
            [] OTHER -> <<Head(cs)>>) \o JsonEscape(Tail(cs))

JsonStringify(cs) == <<"\"">> \o JsonEscape(cs) \o <<"\"">>

parseMessage(msg, json) ==
    IF msg.type = "string" THEN parseTextData(msg.text)
    ELSE (IF msg.event # "" THEN "event: " \o msg.event \o "\n" ELSE "")
         \o (IF Truthy(msg.retry) THEN "retry: " \o ToString(msg.retry) \o "\n" ELSE "")
         \o (IF Truthy(msg.id) THEN "id: " \o ToString(msg.id) \o "\n" ELSE "")
         \o parseTextData(IF json THEN JsonStringify(msg.text) ELSE msg.text)

preambleData == Rep("-", PreambleLength) \o "\n"

-----------------------------------------------------------------------------
(* The transport: response.write *)

Chunk(kind, n, data) == [kind |-> kind, n |-> n, data |-> data]

\* Mutant: the chunk is put in front of the chunks written before
ResponseWriteInFront(log, chunk) == <<chunk>> \o log

\* response.write(chunk): the chunk is queued behind the chunks written before
ResponseWrite(log, chunk) == Append(log, chunk)

\* Writes `chunks` in order to response c; stops at the first write that throws.
RECURSIVE WriteAll(_, _, _)
WriteAll(w, c, chunks) ==
    IF chunks = <<>> THEN [w |-> w, threw |-> FALSE]
    ELSE IF c \in broken THEN [w |-> w, threw |-> TRUE]
    ELSE WriteAll([w EXCEPT ![c] = ResponseWrite(w[c], Head(chunks))], c, Tail(chunks))

\* Mutant: while (--i) instead of while (i--), the first connection is skipped
RECURSIVE broadcastSkipFirst(_, _, _)
broadcastSkipFirst(w, conns, packet) ==
    IF Len(conns) <= 1 THEN [w |-> w, threw |-> FALSE]
    ELSE LET i == Len(conns)
             r == WriteAll(w, conns[i], <<packet>>)
         IN  IF r.threw THEN r ELSE broadcastSkipFirst(r.w, SubSeq(conns, 1, i - 1), packet)

\* function broadcast(connections, packet): var i = length; while (i--) write
RECURSIVE broadcast(_, _, _)
broadcast(w, conns, packet) ==
    IF conns = <<>> THEN [w |-> w, threw |-> FALSE]
    ELSE LET i == Len(conns)
             r == WriteAll(w, conns[i], <<packet>>)
         IN  IF r.threw THEN r ELSE broadcast(r.w, SubSeq(conns, 1, i - 1), packet)

-----------------------------------------------------------------------------
(* The history *)

Entry(id, msg, n) == [id |-> id, msg |-> msg, n |-> n]

\* Mutant: no entry is rejected, as in a send that does not remove duplicates
RejectNothing(h, id) == h

\* _.reject(this.history, { id: id })
Reject(h, id) == SelectSeq(h, LAMBDA e : e.id # id)

\* Mutant: the overflow drops the newest entry (shift) instead of the oldest (pop)
UnshiftThenShift(h, entry, size) ==
    LET u == <<entry>> \o h
    IN  IF Len(u) > size THEN Tail(u) ELSE u

\* Mutant: the overflow is never popped
UnshiftNoPop(h, entry, size) == <<entry>> \o h

\* history.unshift(entry) > historySize && history.pop()
Unshift(h, entry, size) ==
    LET u == <<entry>> \o h
    IN  IF Len(u) > size THEN SubSeq(u, 1, Len(u) - 1) ELSE u

\* Mutant: a presence test (id !== undefined) instead of the truthiness test
AppendHistoryIfPresent(h, msg, frame, n, size) ==
    IF msg.id # Undef THEN Unshift(Reject(h, msg.id), Entry(msg.id, frame, n), size)
    ELSE h

\* if (msg.id) reject duplicates; if (msg.id && unshift(entry) > historySize) pop
AppendHistory(h, msg, frame, n, size) ==
    IF Truthy(msg.id) THEN Unshift(Reject(h, msg.id), Entry(msg.id, frame, n), size)
    ELSE h

\* Mutant: the scan stops at the first entry whose id is < lastId
RECURSIVE MissedEntriesLt(_, _)
MissedEntriesLt(h, lastId) ==
    IF h = <<>> \/ Head(h).id < lastId THEN <<>>
    ELSE Append(MissedEntriesLt(Tail(h), lastId), Head(h))

\* Mutant: the scan does not stop, it collects every entry whose id is > lastId
MissedEntriesNoBreak(h, lastId) == Reverse(SelectSeq(h, LAMBDA e : e.id > lastId))

\* The entries sendMissedEvents collects, oldest first: the scan stops at the
\* first entry whose id is <= lastId.
RECURSIVE MissedEntries(_, _)
MissedEntries(h, lastId) ==
    IF h = <<>> \/ Head(h).id <= lastId THEN <<>>
    ELSE Append(MissedEntries(Tail(h), lastId), Head(h))

\* The constructor's history: filter, slice(0 - historySize), reverse, map
SeedHistory(seed, size, json) ==
    LET kept   == SelectSeq(seed, LAMBDA m : Truthy(m.id))
        sliced == SubSeq(kept, IF Len(kept) > size THEN Len(kept) - size + 1 ELSE 1, Len(kept))
        rev    == Reverse(sliced)
    IN  [i \in 1..Len(rev) |-> Entry(rev[i].id, parseMessage(rev[i], json), 0)]

\* opts.historySize || 500
HistorySizeOf(opt) == IF Truthy(opt) THEN opt ELSE DefaultHistorySize

-----------------------------------------------------------------------------
(* Construction *)

Outcome(op, threw, emitted, cb) == [op |-> op, threw |-> threw, emitted |-> emitted, cb |-> cb]

\* No close(callback) has been called: no counter, no end() callback outstanding
NotClosing == [called |-> FALSE, remaining |-> 0, pending |-> {}, fired |-> 0]

\* new SseChannel(opts)
Construct(opts) ==
    /\ historySize = HistorySizeOf(opts.historySize)
    /\ jsonEncode = opts.jsonEncode
    /\ retryTimeout = opts.retryTimeout
    /\ history = SeedHistory(opts.history, HistorySizeOf(opts.historySize), opts.jsonEncode)
    /\ seeded = LET h == Reverse(history) IN [i \in 1..Len(h) |-> h[i].id]
    /\ connections = <<>>
    /\ connectionCount = 0
    /\ written = [c \in Conns |-> <<>>]
    /\ handlers = [c \in Conns |-> {}]
    /\ ended = {}
    /\ broken = {}
    /\ calls = <<>>
    /\ nbeat = 0
    /\ closing = NotClosing
    /\ outcome = Outcome("new", FALSE, <<>>, "none")

-----------------------------------------------------------------------------
(* addClient *)

\* req.headers['last-event-id'] || query.evs_last_event_id || query.lastEventId || 0
\* Mutant: the query aliases are consulted before the header
LastEventIdQueryFirst(req) ==
    IF Given(req.query) THEN [present |-> TRUE, id |-> req.query]
    ELSE IF Given(req.evs) THEN [present |-> TRUE, id |-> req.evs]
    ELSE IF Given(req.header) THEN [present |-> TRUE, id |-> req.header]
    ELSE [present |-> FALSE, id |-> 0]

\* Mutant: without any value the client resumes from id 0
LastEventIdZero(req) ==
    IF Given(req.header) THEN [present |-> TRUE, id |-> req.header]
    ELSE IF Given(req.evs) THEN [present |-> TRUE, id |-> req.evs]
    ELSE IF Given(req.query) THEN [present |-> TRUE, id |-> req.query]
    ELSE [present |-> TRUE, id |-> 0]

\* `present` is the truthiness of the chosen value, tested by if (lastEventId)
LastEventId(req) ==
    IF Given(req.header) THEN [present |-> TRUE, id |-> req.header]
    ELSE IF Given(req.evs) THEN [present |-> TRUE, id |-> req.evs]
    ELSE IF Given(req.query) THEN [present |-> TRUE, id |-> req.query]
    ELSE [present |-> FALSE, id |-> 0]

\* The chunks initializeConnection writes.  The ghost ordinal of the first chunk
\* is the number of send calls made before the client joined.
Handshake(retry, preamble) ==
    <<Chunk("init", Len(calls), ":ok\n\n")>>
    \o (IF retry # 0 THEN <<Chunk("init", 0, "retry: " \o ToString(retry) \o "\n")>> ELSE <<>>)
    \o (IF preamble THEN <<Chunk("init", 0, ":" \o preambleData)>> ELSE <<>>)

\* The chunks sendMissedEvents writes
MissedChunks(h, lastId) ==
    LET entries == MissedEntries(h, lastId)
    IN  [i \in 1..Len(entries) |-> Chunk("replay", entries[i].n, entries[i].msg)]

RECURSIVE BroadcastEach(_, _, _)
BroadcastEach(w, conns, chunks) ==
    IF chunks = <<>> THEN [w |-> w, threw |-> FALSE]
    ELSE LET r == broadcast(w, conns, Head(chunks))
         IN  IF r.threw THEN r ELSE BroadcastEach(r.w, conns, Tail(chunks))

\* Mutant: the missed events are broadcast to the whole registry
sendMissedEventsToAll(w, c, h, lastId) ==
    BroadcastEach(w, Append(connections, c), MissedChunks(h, lastId))

\* Mutant: the missed events are written ahead of what the response already holds
sendMissedEventsFirst(w, c, h, lastId) ==
    [w |-> [w EXCEPT ![c] = MissedChunks(h, lastId) \o w[c]], threw |-> FALSE]

\* sendMissedEvents(response, lastId): every chunk goes to `response` alone
sendMissedEvents(w, c, h, lastId) == WriteAll(w, c, MissedChunks(h, lastId))

\* Mutant: the access-control check lets every request through
corsAllowsAll(req) == FALSE

\* this.cors(req, res) is truthy: the access-control module has answered the
\* request itself, with status 403 when req.forbidden
cors(req) == req.cors

\* A response object is handed to addClient once, before anything is written to it
Fresh(c) == written[c] = <<>> /\ c \notin Range(connections)

AddClient(c, req) ==
    /\ Fresh(c)
    /\ IF cors(req)
       THEN \* the access-control module has answered the request itself
            /\ outcome' = Outcome("addClient", FALSE, <<>>,
                                  IF ~req.callback THEN "none"
                                  ELSE IF req.forbidden THEN "cors failure" ELSE "null")
            /\ UNCHANGED <<connections, connectionCount, written, handlers>>
       ELSE LET hs == WriteAll(written, c, Handshake(retryTimeout, req.preamble))
                last == LastEventId(req)
                rp == IF last.present THEN sendMissedEvents(hs.w, c, history, last.id) ELSE hs
            IN  IF hs.threw
                THEN /\ written' = hs.w
                     /\ outcome' = Outcome("addClient", TRUE, <<>>, "none")
                     /\ UNCHANGED <<connections, connectionCount, handlers>>
                ELSE /\ connections' = Append(connections, c)
                     /\ connectionCount' = connectionCount + 1
                     /\ handlers' = [handlers EXCEPT ![c] = Signals]
                     /\ written' = rp.w
                     /\ outcome' = IF rp.threw
                                   THEN Outcome("addClient", TRUE, <<>>, "none")
                                   ELSE Outcome("addClient", FALSE, <<"connect">>,
                                                IF req.callback THEN "undefined" ELSE "none")
    /\ UNCHANGED <<config, closing, history, ended, broken, calls, nbeat>>

-----------------------------------------------------------------------------
(* removeClient, run by the close, end and finish listeners *)

\* Mutant: nothing is pulled, the registry keeps the response
PullNothing(conns, c) == conns

\* _.pull(this.connections, res)
Pull(conns, c) == SelectSeq(conns, LAMBDA x : x # c)

removeClient(c) ==
    /\ connections' = Pull(connections, c)
    /\ connectionCount' = connectionCount - 1

Signal(c, s) ==
    /\ s \in handlers[c]
    /\ handlers' = [handlers EXCEPT ![c] = @ \ {s}]
    /\ removeClient(c)
    /\ outcome' = Outcome("removeClient", FALSE, <<"disconnect">>, "none")
    /\ UNCHANGED <<config, closing, history, written, ended, broken, calls, nbeat>>

-----------------------------------------------------------------------------
(* ping, retry, send, close *)

Ping ==
    /\ nbeat < MaxBeats
    /\ nbeat' = nbeat + 1
    /\ LET r == broadcast(written, connections, Chunk("ping", 0, ":\n"))
       IN  /\ written' = r.w
           /\ outcome' = Outcome("ping", r.threw, <<>>, "none")
    /\ UNCHANGED <<config, closing, history, connections, connectionCount, handlers, ended, broken, calls>>

Retry(ms) ==
    /\ nbeat < MaxBeats
    /\ nbeat' = nbeat + 1
    /\ LET r == broadcast(written, connections,
                          Chunk("retry", 0, "retry: " \o ToString(ms) \o "\n"))
       IN  /\ written' = r.w
           /\ outcome' = Outcome("retry", r.threw, <<>>, "none")
    /\ UNCHANGED <<config, closing, history, connections, connectionCount, handlers, ended, broken, calls>>

\* The optional second argument of send
NoClients == [given |-> FALSE, list |-> <<>>]
Clients(list) == [given |-> TRUE, list |-> list]

\* Mutant: the target list does not bypass the history
HistoryAfterSendNoBypass(h, msg, frame, n, size, clients) ==
    AppendHistory(h, msg, frame, n, size)

\* if (!clients) { ... history ... }
HistoryAfterSend(h, msg, frame, n, size, clients) ==
    IF ~clients.given THEN AppendHistory(h, msg, frame, n, size) ELSE h

\* clients || this.connections
Targets(clients, conns) == IF clients.given THEN clients.list ELSE conns

send(msg, clients) ==
    /\ calls' = Append(calls, [msg |-> msg, clients |-> clients])
    /\ LET message == parseMessage(msg, jsonEncode)
           n == Len(calls) + 1
           r == broadcast(written, Targets(clients, connections),
                          Chunk(IF clients.given THEN "private" ELSE "send", n, message))
       IN  /\ history' = HistoryAfterSend(history, msg, message, n, historySize, clients)
           /\ written' = r.w
           /\ outcome' = IF r.threw THEN Outcome("send", TRUE, <<>>, "none")
                         ELSE Outcome("send", FALSE, <<"message">>, "none")
    /\ UNCHANGED <<config, closing, connections, connectionCount, handlers, ended, broken, nbeat>>

Close ==
    /\ ended' = ended \cup Range(connections)
    /\ outcome' = Outcome("close", FALSE, <<>>, "none")
    /\ UNCHANGED <<config, closing, history, connections, connectionCount, written, handlers,
                   broken, calls, nbeat>>

\* The transport of a response starts to fail: every later write to it throws
Break(c) ==
    /\ c \notin broken
    /\ broken' = broken \cup {c}
    /\ outcome' = Outcome("break", FALSE, <<>>, "none")
    /\ UNCHANGED <<config, closing, history, connections, connectionCount, written, handlers,
                   ended, calls, nbeat>>

-----------------------------------------------------------------------------
(* Spec: construction with seed history, publishing and joining with a resume *)
(* id.  The transport never throws.                                          *)

SeedMsgs == {ObjectMsg(i, <<"a">>, "", 0) : i \in {0, 1, 2}}
Options == [historySize : 1..MaxHistorySize, jsonEncode : {FALSE}, retryTimeout : {0},
            history : SeqsUpTo(SeedMsgs, 2)]

Request(header) == [cors |-> FALSE, forbidden |-> FALSE, header |-> header, evs |-> Undef,
                    query |-> Undef, preamble |-> FALSE, callback |-> FALSE]

SpecMsgs == {StringMsg(<<"a">>)} \cup {ObjectMsg(i, <<"a">>, "", 0) : i \in MsgIds}
             \cup {ObjectMsg(2, <<"b">>, "", 0)}

Init == \E opts \in Options : Construct(opts)

Join == \E c \in Conns, last \in ResumeIds : AddClient(c, Request(last))
Publish == Len(calls) < MaxSends /\ \E msg \in SpecMsgs : send(msg, NoClients)

Next == Join \/ Publish

Spec == Init /\ [][Next]_vars

-----------------------------------------------------------------------------
(* SpecDeliver: clients join and leave while messages are sent to everyone  *)
(* and the keep-alive ticks.  The transport never throws.                   *)

DeliverOptions == [historySize : {2}, jsonEncode : {FALSE}, retryTimeout : {0},
                   history : {<<>>}]
DeliverMsgs == {ObjectMsg(i, <<"a">>, "", 0) : i \in {1, 2}}
DeliverResumeIds == {Undef, 0, 1}

\* The response objects a caller of send can name: those addClient has accepted
Known == {c \in Conns : written[c] # <<>>}
ClientLists == {s \in SeqsUpTo(Known, Cardinality(Conns)) : Distinct(s)}

InitDeliver == \E opts \in DeliverOptions : Construct(opts)

DeliverJoin == \E c \in Conns, last \in DeliverResumeIds : AddClient(c, Request(last))
DeliverSignals == {"close", "finish"}
DeliverLeave == \E c \in Conns, s \in DeliverSignals : Signal(c, s)
DeliverPing == Ping
DeliverSend == Len(calls) < MaxDeliveries /\ \E msg \in DeliverMsgs : send(msg, NoClients)

NextDeliver == DeliverJoin \/ DeliverLeave \/ DeliverPing \/ DeliverSend

SpecDeliver == InitDeliver /\ [][NextDeliver]_vars

-----------------------------------------------------------------------------
(* SpecPrivate: messages are sent to everyone or to an explicit list of     *)
(* response objects while clients join.  The transport never throws.        *)

PrivateJoin == \E c \in Conns : AddClient(c, Request(Undef))
PrivateSend == Len(calls) < MaxPrivateSends /\ \E msg \in DeliverMsgs : send(msg, NoClients)
PrivateSendTo ==
    /\ Len(calls) < MaxPrivateSends
    /\ \E msg \in DeliverMsgs, list \in ClientLists : send(msg, Clients(list))

PrivateLeave == \E c \in Conns : Signal(c, "close")

NextPrivate == PrivateJoin \/ PrivateLeave \/ PrivateSend \/ PrivateSendTo

SpecPrivate == InitDeliver /\ [][NextPrivate]_vars

-----------------------------------------------------------------------------
(* SpecFault: as SpecDeliver, and the transport of a response may start to  *)
(* throw on write.                                                          *)

FaultJoin == \E c \in Conns : AddClient(c, Request(Undef))
FaultSend == Len(calls) < MaxFaultSends /\ \E msg \in DeliverMsgs : send(msg, NoClients)
FaultBreak == \E c \in Conns : Break(c)
FaultPing == Ping
FaultRetry == \E ms \in RetryHints : Retry(ms)

NextFault == FaultJoin \/ FaultSend \/ FaultBreak \/ FaultPing \/ FaultRetry

SpecFault == InitDeliver /\ [][NextFault]_vars

-----------------------------------------------------------------------------
(* SpecLib: the send of lib/sse-channel.js, which takes no target list and  *)
(* stores the entry without rejecting the entries of the same id.           *)

\* if (msg.id && this.history.unshift(entry) > this.historySize) this.history.pop()
libAppendHistory(h, msg, frame, n, size) ==
    IF Truthy(msg.id) THEN Unshift(h, Entry(msg.id, frame, n), size) ELSE h

libSend(msg) ==
    /\ calls' = Append(calls, [msg |-> msg, clients |-> NoClients])
    /\ LET message == parseMessage(msg, jsonEncode)
           n == Len(calls) + 1
           r == broadcast(written, connections, Chunk("send", n, message))
       IN  /\ history' = libAppendHistory(history, msg, message, n, historySize)
           /\ written' = r.w
           /\ outcome' = IF r.threw THEN Outcome("send", TRUE, <<>>, "none")
                         ELSE Outcome("send", FALSE, <<"message">>, "none")
    /\ UNCHANGED <<config, closing, connections, connectionCount, handlers, ended, broken, nbeat>>

\* _.after(n, func): the function it returns invokes func once it has been
\* called n or more times; `after` itself never invokes func
After(cl) ==
    [cl EXCEPT !.remaining = @ - 1, !.fired = IF cl.remaining - 1 < 1 THEN @ + 1 ELSE @]

\* close(callback): done = _.after(connections.length, callback), and end(done)
\* on every registered connection.  One close call is followed per channel.
libClose ==
    /\ ~closing.called
    /\ closing' = [called |-> TRUE, remaining |-> Len(connections),
                   pending |-> Range(connections), fired |-> 0]
    /\ ended' = ended \cup Range(connections)
    /\ outcome' = Outcome("close", FALSE, <<>>, "none")
    /\ UNCHANGED <<config, history, connections, connectionCount, written, handlers,
                   broken, calls, nbeat>>

\* The response c has finished: its 'finish' event runs the removeClient listener
\* of addClient and then the callback that end(done) registered
libFinish(c) ==
    /\ c \in ended
    /\ "finish" \in handlers[c]
    /\ handlers' = [handlers EXCEPT ![c] = @ \ {"finish"}]
    /\ removeClient(c)
    /\ closing' = IF c \in closing.pending
                  THEN [After(closing) EXCEPT !.pending = @ \ {c}]
                  ELSE closing
    /\ outcome' = Outcome("removeClient", FALSE, <<"disconnect">>, "none")
    /\ UNCHANGED <<config, history, written, ended, broken, calls, nbeat>>

LibJoin == \E c \in Conns, last \in DeliverResumeIds : AddClient(c, Request(last))
LibSend == Len(calls) < MaxDeliveries /\ \E msg \in DeliverMsgs : libSend(msg)
LibClose == libClose
LibFinish == \E c \in Conns : libFinish(c)

NextLib == LibJoin \/ LibSend \/ LibClose \/ LibFinish

SpecLib == InitDeliver /\ [][NextLib]_vars

-----------------------------------------------------------------------------
(* SpecAccess: clients join with every kind of request (cross-origin or     *)
(* not, with or without callback and preamble, the resume id in the header  *)
(* or in either query alias) while messages are sent.  The transport never  *)
(* throws.                                                                  *)

AccessOptions == [historySize : {2}, jsonEncode : {FALSE}, retryTimeout : {0, 3000},
                  history : {<<>>}]
\* Requests the access-control module answers itself (403 when forbidden)
CorsRequests == [cors : {TRUE}, forbidden : BOOLEAN, header : {Undef, 0}, evs : {Undef},
                 query : {Undef}, preamble : {TRUE}, callback : BOOLEAN]
\* Accepted requests that give the resume id in the header or the query aliases
ResumeRequests == [cors : {FALSE}, forbidden : {FALSE}, header : {Undef, Empty, 1},
                   evs : {Undef, Empty, 0}, query : {Undef, Empty, 0, 1},
                   preamble : {FALSE}, callback : {FALSE}]
\* Accepted requests that ask for the preamble (evs_preamble) and pass a callback
PreambleRequests == [cors : {FALSE}, forbidden : {FALSE}, header : {Undef, 0, 1}, evs : {Undef},
                     query : {Undef}, preamble : {TRUE}, callback : {TRUE}]
Requests == CorsRequests \cup ResumeRequests \cup PreambleRequests

InitAccess == \E opts \in AccessOptions : Construct(opts)

AccessJoin == \E c \in Conns, req \in Requests : AddClient(c, req)
AccessSend == Len(calls) < MaxAccessSends /\ \E msg \in DeliverMsgs : send(msg, NoClients)

NextAccess == AccessJoin \/ AccessSend

SpecAccess == InitAccess /\ [][NextAccess]_vars

-----------------------------------------------------------------------------
(* SpecBeat: the keep-alive timer ticks and retry hints are broadcast while *)
(* clients join and leave and messages are sent.  The transport never       *)
(* throws.                                                                  *)

BeatJoin == \E c \in Conns : AddClient(c, Request(Undef))
BeatLeave == \E c \in Conns : Signal(c, "close")
BeatSend == Len(calls) < MaxBeatSends /\ \E msg \in DeliverMsgs : send(msg, NoClients)
BeatPing == Ping
BeatRetry == \E ms \in RetryHints : Retry(ms)

NextBeat == BeatJoin \/ BeatLeave \/ BeatSend \/ BeatPing \/ BeatRetry

SpecBeat == InitDeliver /\ [][NextBeat]_vars

-----------------------------------------------------------------------------
(* SpecFormat: one message, whose payload is any text of up to MaxTextLen   *)
(* characters with line breaks of every kind, is sent as a string or as an  *)
(* object, with or without JSON encoding, to the clients that have joined.  *)

FormatOptions == [historySize : {2}, jsonEncode : BOOLEAN, retryTimeout : {0},
                  history : {<<>>}]
Chars == {"a", "\n", "\r"}
Texts == SeqsUpTo(Chars, MaxTextLen)
FormatMsgs == {StringMsg(t) : t \in Texts} \cup {ObjectMsg(1, t, "", 0) : t \in Texts}

InitFormat == \E opts \in FormatOptions : Construct(opts)

FormatJoin == \E c \in Conns : AddClient(c, Request(Undef))
FormatSend == calls = <<>> /\ \E msg \in FormatMsgs : send(msg, NoClients)

NextFormat == FormatJoin \/ FormatSend

SpecFormat == InitFormat /\ [][NextFormat]_vars

-----------------------------------------------------------------------------
(* SpecReplay: messages with the ids 1 and 2 are sent in any order, an id   *)
(* possibly more than once, and clients join with a resume id.  The         *)
(* transport never throws.                                                  *)

ReplayResumeIds == {0, 1, 2}

ReplayJoin == \E c \in Conns, last \in ReplayResumeIds : AddClient(c, Request(last))
ReplaySend == Len(calls) < MaxReplaySends /\ \E msg \in DeliverMsgs : send(msg, NoClients)

NextReplay == ReplayJoin \/ ReplaySend

SpecReplay == InitDeliver /\ [][NextReplay]_vars

-----------------------------------------------------------------------------
(* SpecGone: clients join, any of their three signals fires, and messages,  *)
(* keep-alive ticks and retry hints are broadcast.  The transport never     *)
(* throws.                                                                  *)

GoneJoin == \E c \in Conns : AddClient(c, Request(Undef))
GoneSignal == \E c \in Conns, s \in Signals : Signal(c, s)
GoneSend == Len(calls) < MaxGoneSends /\ \E msg \in DeliverMsgs : send(msg, NoClients)
GonePing == Ping
GoneRetry == \E ms \in RetryHints : Retry(ms)

NextGone == GoneJoin \/ GoneSignal \/ GoneSend \/ GonePing \/ GoneRetry

SpecGone == InitDeliver /\ [][NextGone]_vars

-----------------------------------------------------------------------------
(* SpecChurn: clients join and every one of the three signals of a client   *)
(* may fire, while messages are sent, the keep-alive ticks and the channel  *)
(* is closed.  The transport never throws.                                  *)

ChurnJoin == \E c \in Conns : AddClient(c, Request(Undef))
ChurnSignal == \E c \in Conns, s \in Signals : Signal(c, s)
ChurnSend == Len(calls) < MaxChurnSends /\ \E msg \in DeliverMsgs : send(msg, NoClients)
ChurnPing == Ping
ChurnClose == Close

NextChurn == ChurnJoin \/ ChurnSignal \/ ChurnSend \/ ChurnPing \/ ChurnClose

SpecChurn == InitDeliver /\ [][NextChurn]_vars

-----------------------------------------------------------------------------
(* Vocabulary of the properties *)

IdsOf(h) == [i \in 1..Len(h) |-> h[i].id]
FramesOf(h) == [i \in 1..Len(h) |-> h[i].msg]
DataOf(log, kind) ==
    LET r == SelectSeq(log, LAMBDA k : k.kind = kind) IN [i \in 1..Len(r) |-> r[i].data]
OrdinalsOf(log, kind) ==
    LET r == SelectSeq(log, LAMBDA k : k.kind = kind) IN [i \in 1..Len(r) |-> r[i].n]
NonDecreasing(s) == \A i \in 1..(Len(s) - 1) : s[i] <= s[i + 1]
Registered == Range(connections)

\* The send calls without a target list that carried a truthy id, in call order
Published == SelectSeq(calls, LAMBDA k : ~k.clients.given /\ Truthy(k.msg.id))
PublishedIds == [i \in 1..Len(Published) |-> Published[i].msg.id]

\* Every id that entered the history, seed or publish, came in non-decreasing order
InOrder == NonDecreasing(seeded \o PublishedIds)

\* The frames of the entries of h whose id is greater than lastId, oldest first
NewerThan(h, lastId) == FramesOf(Reverse(SelectSeq(h, LAMBDA e : e.id > lastId)))

-----------------------------------------------------------------------------
(* C1: every send without a target list completes and writes the formatted  *)
(* frame exactly once to every connection in the registry at the moment of  *)
(* the call, and to no connection outside the registry.                     *)

LastCall == calls[Len(calls)]

\* How many times the frame of the last send call was written to c
TimesWritten(c, kind) ==
    Cardinality({i \in 1..Len(written[c]) :
                    written[c][i] = Chunk(kind, Len(calls), parseMessage(LastCall.msg, jsonEncode))})

\* C1: after a send without a target list, the call has completed and its frame
\* is in the stream of every registered connection exactly once and of no other.
C1_SendReachesAll ==
    (outcome.op = "send" /\ ~LastCall.clients.given)
        => /\ ~outcome.threw
           /\ \A c \in Conns : TimesWritten(c, "send") = (IF c \in Registered THEN 1 ELSE 0)

-----------------------------------------------------------------------------
(* C2: every connection receives the broadcast frames in the order in which *)
(* the send calls were invoked, whatever addClient, removeClient and ping   *)
(* calls come in between.                                                   *)

Increasing(s) == \A i \in 1..(Len(s) - 1) : s[i] < s[i + 1]

\* C2: in every stream the broadcast frames appear in the order of their send calls.
C2_BroadcastOrder ==
    \A c \in Conns :
        /\ Increasing(OrdinalsOf(written[c], "send"))
        /\ \A i \in 1..Len(written[c]) :
               written[c][i].kind = "send"
                   => written[c][i].data = parseMessage(calls[written[c][i].n].msg, jsonEncode)

\* A connection received two broadcasts with a keep-alive in between
C2_Witness ==
    \E c \in Conns : \E i, j, k \in 1..Len(written[c]) :
        /\ i < j /\ j < k
        /\ written[c][i].kind = "send"
        /\ written[c][j].kind = "ping"
        /\ written[c][k].kind = "send"

-----------------------------------------------------------------------------
(* C3: when the ids entered the history in non-decreasing order, a client   *)
(* that joins with resume id L is sent, as replay, exactly the frames of    *)
(* the history entries whose id is greater than L, each once, oldest first, *)
(* and no frame of an entry whose id is <= L.                               *)

\* C3: a join with resume id L replays exactly the entries newer than L, oldest first.
C3_ResumeReplay ==
    [][\A c \in Conns, last \in ResumeIds \ {Undef} :
          (AddClient(c, Request(last)) /\ InOrder)
              => /\ DataOf(written'[c], "replay") = NewerThan(history, last)
                 /\ \A i \in 1..Len(written'[c]) : written'[c][i].kind \in {"init", "replay"}]_vars

\* A client has just joined with a resume id that splits a two-entry history:
\* the newer entry was replayed, the older one was not.
C3_Witness ==
    /\ outcome.op = "addClient"
    /\ InOrder
    /\ Len(history) = 2
    /\ history[1].n > 0
    /\ connections # <<>>
    /\ DataOf(written[connections[Len(connections)]], "replay") = <<history[1].msg>>

-----------------------------------------------------------------------------
(* C4: a connection receives by live broadcast only the sends invoked after *)
(* it joined, its replay holds only sends invoked before it joined, and no  *)
(* send reaches it both as a replayed and as a live frame.                  *)

\* The number of send calls made before c joined
JoinedAfter(c) == written[c][1].n

\* C4: live frames come from sends after the join, replayed frames from sends
\* before it, and no send reaches a connection both ways.
C4_ReplayThenLive ==
    \A c \in Conns : \A i \in 1..Len(written[c]) :
        /\ written[c][i].kind = "send" => written[c][i].n > JoinedAfter(c)
        /\ written[c][i].kind = "replay"
               => /\ written[c][i].n <= JoinedAfter(c)
                  /\ \A j \in 1..Len(written[c]) : written[c][j].kind = "send" => i < j
        /\ \A j \in 1..Len(written[c]) :
               (i # j /\ written[c][i].kind \in {"send", "replay"}
                      /\ written[c][j].kind \in {"send", "replay"})
                   => written[c][i].n # written[c][j].n

\* A connection joined between two sends: the first was replayed to it, the
\* second reached it live
C4_Witness ==
    \E c \in Conns : \E i, j \in 1..Len(written[c]) :
        /\ written[c][i].kind = "replay" /\ written[c][i].n = 1
        /\ written[c][j].kind = "send" /\ written[c][j].n = 2
        /\ JoinedAfter(c) = 1

-----------------------------------------------------------------------------
(* C5: after publishing ids 1..N in increasing order with N > historySize,  *)
(* the history holds exactly the ids N-historySize+1 .. N, a replay from    *)
(* resume id 0 writes their frames oldest first, and an append that         *)
(* overflows evicts exactly the single oldest entry.                        *)

PublishedOneToN == PublishedIds = [i \in 1..Len(PublishedIds) |-> i]

MostRecentIds(n, size) == [i \in 1..size |-> n + 1 - i]

CapacityState ==
    LET n == Len(PublishedIds)
    IN  (PublishedOneToN /\ n > historySize) => IdsOf(history) = MostRecentIds(n, historySize)

CapacityReplay(c) ==
    LET n == Len(PublishedIds)
    IN  (PublishedOneToN /\ n > historySize /\ AddClient(c, Request(0)))
            => DataOf(written'[c], "replay") =
                   [i \in 1..historySize |->
                       parseMessage(Published[n - historySize + i].msg, jsonEncode)]

CapacityEviction(msg) ==
    (/\ Truthy(msg.id)
     /\ msg.id \notin Range(IdsOf(history))
     /\ Len(history) = historySize
     /\ send(msg, NoClients))
        => /\ Len(history') = historySize
           /\ Tail(history') = SubSeq(history, 1, historySize - 1)
           /\ history'[1].id = msg.id

-----------------------------------------------------------------------------
(* C6: the history never holds more than historySize entries.               *)

\* C6: the history never exceeds historySize.
C6_HistoryBounded == Len(history) <= historySize

\* A publish has just overflowed a full history
C6_Witness ==
    /\ outcome.op = "send"
    /\ Len(history) = historySize
    /\ Len(seeded) + Len(PublishedIds) > historySize
    /\ history[1].n = Len(calls)
    /\ \A i \in 1..Len(history) : history[i].id # history[1].id \/ i = 1

-----------------------------------------------------------------------------
(* C7: no two history entries have the same id.                             *)

\* C7: the ids of the history entries are pairwise different.
C7_UniqueIds == \A i, j \in 1..Len(history) : i # j => history[i].id # history[j].id

-----------------------------------------------------------------------------
(* C8: publishing a message whose id is already in the history leaves       *)
(* exactly one entry for that id, holding the frame of the latest payload,  *)
(* at the most-recent position, and the number of entries does not grow.    *)

Republish(msg) ==
    (/\ send(msg, NoClients)
     /\ Truthy(msg.id)
     /\ msg.id \in Range(IdsOf(history)))
        => /\ Cardinality({i \in 1..Len(history') : history'[i].id = msg.id}) = 1
           /\ history'[1].id = msg.id
           /\ history'[1].msg = parseMessage(msg, jsonEncode)
           /\ Len(history') <= Len(history)

\* C8: a republish leaves one entry for the id, with the latest frame, at the head.
C8_Republish == [][\A msg \in SpecMsgs : Republish(msg)]_vars

\* The last two publishes carried the same id with different payloads
C8_Witness ==
    /\ outcome.op = "send"
    /\ Len(calls) >= 2
    /\ LET a == calls[Len(calls) - 1]
           b == calls[Len(calls)]
       IN  /\ ~a.clients.given /\ ~b.clients.given
           /\ Truthy(b.msg.id)
           /\ a.msg.id = b.msg.id
           /\ a.msg.text # b.msg.text
           /\ history[1].msg = parseMessage(b.msg, jsonEncode)

-----------------------------------------------------------------------------
(* C9: a message whose id is absent or 0, and any plain string, is written  *)
(* to every registered connection by send and leaves the history unchanged; *)
(* no later replay writes its frame.                                        *)

FalsySend(msg) ==
    (send(msg, NoClients) /\ ~Truthy(msg.id))
        => /\ history' = history
           /\ \A c \in Conns :
                  written'[c] =
                      IF c \in Registered
                      THEN Append(written[c],
                                  Chunk("send", Len(calls) + 1, parseMessage(msg, jsonEncode)))
                      ELSE written[c]

NeverReplayed ==
    /\ \A i \in 1..Len(history) : Truthy(history[i].id)
    /\ \A c \in Conns : \A i \in 1..Len(written[c]) :
           written[c][i].kind = "replay"
               => LET n == written[c][i].n
                  IN  IF n = 0 THEN written[c][i].data \notin {parseMessage(m, jsonEncode) :
                                       m \in {x \in SeedMsgs : ~Truthy(x.id)}}
                      ELSE Truthy(calls[n].msg.id) /\ ~calls[n].clients.given

\* C9: a send without a truthy id reaches every registered connection, leaves the
\* history unchanged and is never replayed.
C9_FalsyIdNotStored == []NeverReplayed /\ [][\A msg \in SpecMsgs : FalsySend(msg)]_vars

\* A message without a truthy id reached a registered connection, and a client
\* that joined afterwards was sent a replay
C9_Witness ==
    /\ outcome.op = "addClient"
    /\ \E n \in 1..Len(calls) :
           /\ ~Truthy(calls[n].msg.id)
           /\ \E c \in Conns : \E i \in 1..Len(written[c]) :
                  written[c][i].kind = "send" /\ written[c][i].n = n
           /\ \E d \in Conns :
                  /\ written[d] # <<>>
                  /\ written[d][1].n >= n
                  /\ DataOf(written[d], "replay") # <<>>

-----------------------------------------------------------------------------
(* C10: send with an explicit list of connections writes the frame to       *)
(* exactly the connections of the list and leaves the history unchanged.    *)

Unicast(msg, list) ==
    send(msg, Clients(list))
        => /\ history' = history
           /\ \A c \in Conns :
                  written'[c] =
                      IF c \in Range(list)
                      THEN Append(written[c],
                                  Chunk("private", Len(calls) + 1, parseMessage(msg, jsonEncode)))
                      ELSE written[c]

\* C10: a send with a target list writes to exactly that list and leaves the history
\* unchanged.
C10_UnicastBypass == [][\A msg \in DeliverMsgs, list \in ClientLists : Unicast(msg, list)]_vars

\* A message whose id is in the history, but not at its head, has just been
\* sent to one of two registered connections
C10_Witness ==
    /\ outcome.op = "send"
    /\ calls # <<>>
    /\ LastCall.clients.given
    /\ Len(history) = 2
    /\ history[2].id = LastCall.msg.id
    /\ Len(connections) = 2
    /\ \E c, d \in Registered : TimesWritten(c, "private") = 1 /\ TimesWritten(d, "private") = 0

-----------------------------------------------------------------------------
(* C11: getConnectionCount() equals the number of connections held in the   *)
(* registry, in every reachable state.                                      *)

\* C11: connectionCount is the length of the registry.
C11_CountMatchesRegistry == connectionCount = Len(connections)

-----------------------------------------------------------------------------
(* C12: a removeClient for a connection that is no longer in the registry   *)
(* leaves the registry and the count unchanged and raises no error.         *)

SecondRemoval(c, s) == Signal(c, s) /\ c \notin Range(connections)

\* C12: a signal firing for a connection already removed changes neither the
\* registry nor the count, and does not throw.
C12_SecondRemovalNoOp ==
    [][\A c \in Conns, s \in Signals :
          SecondRemoval(c, s) =>
              /\ connections' = connections
              /\ connectionCount' = connectionCount
              /\ ~outcome'.threw]_vars

-----------------------------------------------------------------------------
(* C13: when the write to one registered connection throws during the       *)
(* broadcast of send, ping or retry, every other registered connection      *)
(* still gets the frame, the call does not abort, and the failing           *)
(* connection is removed from the registry.                                 *)

FaultBroadcast == FaultSend \/ FaultPing \/ FaultRetry

\* C13: a broadcast step completes, writes one frame to every registered
\* connection whose transport works, and unregisters the ones whose write threw.
C13_FaultIsolation ==
    [][FaultBroadcast =>
          /\ ~outcome'.threw
          /\ \A c \in Range(connections) \ broken : Len(written'[c]) = Len(written[c]) + 1
          /\ \A c \in Range(connections) \cap broken : c \notin Range(connections')]_vars

-----------------------------------------------------------------------------
(* C14: when the access-control check rejects a connecting client,          *)
(* addClient reports the rejection to the callback and changes nothing:     *)
(* no registration, no count change, no frame written, no removal handler,  *)
(* no connect event.                                                        *)

\* C14: an addClient the access-control check has answered leaves the registry,
\* the count, every stream, the handlers and the history as they were, emits
\* nothing, and hands 'cors failure' to the callback when the answer was a 403.
C14_AccessRejected ==
    [][\A c \in Conns, req \in CorsRequests :
          AddClient(c, req) =>
              /\ connections' = connections
              /\ connectionCount' = connectionCount
              /\ written' = written
              /\ handlers' = handlers
              /\ history' = history
              /\ ~outcome'.threw
              /\ outcome'.emitted = <<>>
              /\ (req.forbidden /\ req.callback) => outcome'.cb = "cors failure"]_vars

\* A client has just been rejected while another one is registered and the
\* history holds an entry the rejected client could have asked for
C14_Witness ==
    /\ outcome.op = "addClient"
    /\ outcome.cb = "cors failure"
    /\ connections # <<>>
    /\ history # <<>>
    /\ \E c \in Conns : written[c] = <<>> /\ handlers[c] = {}

-----------------------------------------------------------------------------
(* C15: close() ends every registered connection and its completion signal  *)
(* fires exactly once, after every one of them has completed closing; with  *)
(* no connection registered at the call it fires immediately.               *)

\* The completion signal has fired at most once, and only when no end() of
\* the close call is still outstanding
CompletionOnceAfterAll ==
    /\ closing.fired <= 1
    /\ closing.fired = 1 => closing.pending = {}

\* close() calls end() on every registered connection
CloseEndsAll == libClose => Range(connections) \subseteq ended'

\* close() on an empty registry fires the completion signal within the call
CloseEmptyFiresNow == (libClose /\ connections = <<>>) => closing'.fired = 1

\* C15: close ends every registered connection; the completion signal fires at
\* most once and not before every connection has finished; on an empty
\* registry it fires within the close call.
C15_CloseCompletion ==
    /\ []CompletionOnceAfterAll
    /\ [][CloseEndsAll /\ CloseEmptyFiresNow]_vars

\* The parts of C15 that hold: everything but the empty-registry case
C15_CloseCompletionNonEmpty ==
    /\ []CompletionOnceAfterAll
    /\ [][CloseEndsAll]_vars
    /\ [](closing.called /\ closing.remaining >= 1 => closing.fired = 0)

\* Two connections were closed, both have finished, and the signal has fired
C15_WitnessNonEmpty ==
    /\ closing.called
    /\ closing.fired = 1
    /\ Cardinality(ended) = 2
    /\ connections = <<>>

-----------------------------------------------------------------------------
(* C16: on an accepted addClient with a resume id the replay frames go to   *)
(* the joining connection only, after its handshake and before the connect  *)
(* event; no other connection is written to and the history is unchanged.   *)

AcceptedRequests == ResumeRequests \cup PreambleRequests
HasResumeId(req) == Given(req.header) \/ Given(req.evs) \/ Given(req.query)

\* The stream is a run of handshake chunks followed by a run of replay chunks
HandshakeThenReplay(log) ==
    \E k \in 1..Len(log) :
        /\ \A i \in 1..k : log[i].kind = "init"
        /\ \A i \in (k + 1)..Len(log) : log[i].kind = "replay"

\* C16: when addClient with a resume id returns and has emitted connect, the
\* stream of the joining connection is its handshake followed by the missed
\* frames, every other stream is as before, and so is the history.
C16_ReplayToJoinerOnly ==
    [][\A c \in Conns, req \in AcceptedRequests :
          (AddClient(c, req) /\ HasResumeId(req)) =>
              /\ written'[c][1].data = ":ok\n\n"
              /\ HandshakeThenReplay(written'[c])
              /\ DataOf(written'[c], "replay")
                     = FramesOf(MissedEntries(history, LastEventId(req).id))
              /\ \A d \in Conns \ {c} : written'[d] = written[d]
              /\ history' = history
              /\ ~outcome'.threw
              /\ outcome'.emitted = <<"connect">>]_vars

\* A client has just joined with the preamble and a resume id: it got three
\* handshake chunks and a replayed frame, while another client is registered
C16_Witness ==
    /\ outcome.op = "addClient"
    /\ outcome.emitted = <<"connect">>
    /\ Len(connections) = 2
    /\ LET log == written[connections[2]]
       IN  /\ Len(DataOf(log, "init")) = 3
           /\ Len(DataOf(log, "replay")) >= 1
           /\ log[Len(log)].kind = "replay"
    /\ written[connections[1]] # <<>>

-----------------------------------------------------------------------------
(* C17: a keep-alive tick writes exactly one comment frame ':\n' to every   *)
(* connection registered at the tick, whatever has been published, and      *)
(* changes neither the history nor the registry; retry(ms) does the same    *)
(* with the frame 'retry: <ms>\n'.                                          *)

\* Exactly one chunk, holding `data`, was added to the stream of every
\* registered connection, and nothing else changed
OneFrameToAll(data) ==
    /\ \A c \in Registered :
           /\ Len(written'[c]) = Len(written[c]) + 1
           /\ SubSeq(written'[c], 1, Len(written[c])) = written[c]
           /\ written'[c][Len(written'[c])].data = data
    /\ \A c \in Conns \ Registered : written'[c] = written[c]
    /\ history' = history
    /\ connections' = connections
    /\ connectionCount' = connectionCount
    /\ ~outcome'.threw

\* C17: ping adds the single frame ':\n', and retry(ms) the single frame
\* 'retry: <ms>\n', to every registered stream and changes nothing else.
C17_BeatFrames ==
    [][/\ Ping => OneFrameToAll(":\n")
       /\ \A ms \in RetryHints :
              Retry(ms) => OneFrameToAll("retry: " \o ToString(ms) \o "\n")]_vars

\* The timer has just ticked with two clients registered, after a publish that
\* both received: each stream ends with the comment frame
C17_Witness ==
    /\ outcome.op = "ping"
    /\ Len(connections) = 2
    /\ history # <<>>
    /\ \A c \in Registered :
           /\ Len(written[c]) >= 3
           /\ written[c][Len(written[c])].data = ":\n"
           /\ written[c][Len(written[c]) - 1].kind = "send"

-----------------------------------------------------------------------------
(* C18: the history seeded at construction holds at most historySize        *)
(* entries, the last ones given, no two with the same id and none with a    *)
(* falsy id, and a replay over it yields the frames in the order given.     *)

\* The ids of the seed messages that can be stored, in the order given
StorableIds(seed) ==
    LET kept == SelectSeq(seed, LAMBDA m : Truthy(m.id)) IN [i \in 1..Len(kept) |-> kept[i].id]

LastOf(s, k) == SubSeq(s, IF Len(s) > k THEN Len(s) - k + 1 ELSE 1, Len(s))

\* The constructed history is the last historySize storable seeds, oldest last
SeedKeepsLast ==
    \A opts \in Options :
        IdsOf(Reverse(SeedHistory(opts.history, opts.historySize, opts.jsonEncode)))
            = LastOf(StorableIds(opts.history), opts.historySize)

\* Before any publish: capacity and truthy ids
SeedBounded ==
    calls = <<>> => /\ Len(history) <= historySize
                    /\ \A i \in 1..Len(history) : Truthy(history[i].id)

\* Before any publish: unique ids
SeedUnique == calls = <<>> => Distinct(IdsOf(history))

\* A replay from id 0 over the seeded history writes its frames oldest first
SeedReplay ==
    \A c \in Conns :
        (AddClient(c, Request(0)) /\ calls = <<>>)
            => DataOf(written'[c], "replay") = FramesOf(Reverse(history))

\* C18: the seeded history keeps the last historySize storable seeds, without
\* a falsy id and without a repeated id, and replays them in the order given.
C18_SeededHistory ==
    /\ [](SeedKeepsLast /\ SeedBounded /\ SeedUnique)
    /\ [][SeedReplay]_vars

\* The parts of C18 that hold: everything but the uniqueness of the ids
C18_SeededHistoryButUnique ==
    /\ [](SeedKeepsLast /\ SeedBounded)
    /\ [][SeedReplay]_vars

-----------------------------------------------------------------------------
(* C19: the resume id is the first value given, in the order header,        *)
(* evs_last_event_id, lastEventId; when none is given nothing is replayed,  *)
(* the client is not treated as resuming from id 0.                         *)

\* What the joining connection c was sent as replay
ReplayedTo(c) == DataOf(written'[c], "replay")
ReplayFrom(id) == FramesOf(MissedEntries(history, id))

\* C19: the replay of an accepted addClient is the one of the header value if
\* given, else of evs_last_event_id if given, else of lastEventId if given, and
\* is empty when no value is given.
C19_ResumeIdPrecedence ==
    [][\A c \in Conns, req \in ResumeRequests :
          AddClient(c, req) =>
              /\ Given(req.header) => ReplayedTo(c) = ReplayFrom(req.header)
              /\ (~Given(req.header) /\ Given(req.evs)) => ReplayedTo(c) = ReplayFrom(req.evs)
              /\ (~Given(req.header) /\ ~Given(req.evs) /\ Given(req.query))
                     => ReplayedTo(c) = ReplayFrom(req.query)
              /\ (~Given(req.header) /\ ~Given(req.evs) /\ ~Given(req.query))
                     => ReplayedTo(c) = <<>>]_vars

\* With two entries in the history, a client has just joined and was replayed
\* the newer entry only, while the other registered client joined after both
\* publishes and was replayed nothing
C19_Witness ==
    /\ outcome.op = "addClient"
    /\ Len(history) = 2
    /\ Len(connections) = 2
    /\ DataOf(written[connections[2]], "replay") = <<history[1].msg>>
    /\ DataOf(written[connections[1]], "replay") = <<>>
    /\ JoinedAfter(connections[1]) = 2

-----------------------------------------------------------------------------
(* C20: the data block of a frame has one 'data: <line>' line per line of   *)
(* the payload, the breaks \r\n, \r and \n counting as one each; the empty  *)
(* payload gives 'data: \n\n'; the frame ends with exactly one blank line.  *)

\* The lines of a text, read left to right: \r\n, \r and \n each end a line
RECURSIVE LinesOf(_, _)
LinesOf(cs, cur) ==
    IF cs = <<>> THEN <<cur>>
    ELSE IF Len(cs) >= 2 /\ cs[1] = "\r" /\ cs[2] = "\n"
         THEN <<cur>> \o LinesOf(SubSeq(cs, 3, Len(cs)), "")
    ELSE IF cs[1] \in {"\r", "\n"} THEN <<cur>> \o LinesOf(Tail(cs), "")
    ELSE LinesOf(Tail(cs), cur \o cs[1])

\* One 'data: <line>\n' per line
RECURSIVE DataBlock(_)
DataBlock(lines) ==
    IF lines = <<>> THEN "" ELSE "data: " \o Head(lines) \o "\n" \o DataBlock(Tail(lines))

\* The text that is formatted as the data of msg
Payload(msg) ==
    IF msg.type = "object" /\ jsonEncode THEN JsonStringify(msg.text) ELSE msg.text

\* The fields that precede the data block
FieldsOf(msg) == IF msg.type = "object" /\ Truthy(msg.id) THEN "id: " \o ToString(msg.id) \o "\n" ELSE ""

\* The frame the claim describes: the fields, one data line per payload line,
\* and one blank line
ExpectedFrame(msg) == FieldsOf(msg) \o DataBlock(LinesOf(Payload(msg), "")) \o "\n"

-----------------------------------------------------------------------------
(* C21: after any sequence of sends with truthy ids, republishes included,  *)
(* a replay from lastId writes the frame of every retained entry whose id   *)
(* is greater than lastId, oldest first, and of no other entry.             *)

\* The entries of h, most recent first, that come before the first entry
\* whose id is <= lastId
LeadingRun(h, lastId) ==
    LET stops == {i \in 1..Len(h) : h[i].id <= lastId}
        k == IF stops = {} THEN Len(h) + 1
             ELSE CHOOSE i \in stops : \A j \in stops : i <= j
    IN  SubSeq(h, 1, k - 1)

\* The history holds its ids in non-increasing order from the most recent one
NewestFirst(h) == NonDecreasing(Reverse(IdsOf(h)))

\* C21 as stated: whatever the order of the sends, the replay is every retained
\* entry newer than lastId, oldest first.
C21_ReplayAllNewer ==
    [][\A c \in Conns, last \in ReplayResumeIds :
          AddClient(c, Request(last))
              => DataOf(written'[c], "replay") = NewerThan(history, last)]_vars

\* C21, amended: the replay is, oldest first, the entries more recent than the
\* most recent entry whose id is <= lastId: only entries newer than lastId, and
\* all of them when the history holds its ids in order.
C21_ReplayLeadingRun ==
    [][\A c \in Conns, last \in ReplayResumeIds :
          AddClient(c, Request(last))
              => /\ DataOf(written'[c], "replay") = FramesOf(Reverse(LeadingRun(history, last)))
                 /\ \A i \in 1..Len(written'[c]) :
                        written'[c][i].kind = "replay"
                            => \E j \in 1..Len(history) :
                                   /\ history[j].id > last
                                   /\ history[j].msg = written'[c][i].data
                 /\ NewestFirst(history)
                        => DataOf(written'[c], "replay") = NewerThan(history, last)]_vars

\* After the sends of the ids 1, 2 and 1 again, which moved id 1 in front of
\* id 2, a client has just joined and was replayed both entries, 2 before 1
C21_Witness ==
    /\ outcome.op = "addClient"
    /\ Len(calls) = 3
    /\ [i \in 1..3 |-> calls[i].msg.id] = <<1, 2, 1>>
    /\ IdsOf(history) = <<1, 2>>
    /\ connections # <<>>
    /\ DataOf(written[connections[Len(connections)]], "replay")
           = <<history[2].msg, history[1].msg>>

-----------------------------------------------------------------------------
(* C22: once removeClient has run for a connection, no later send without   *)
(* targets, ping or retry writes a frame to it.                             *)

\* removeClient has run for c: c was accepted and one of its signals has fired
Removed(c) == written[c] # <<>> /\ handlers[c] # Signals

GoneBroadcast == GoneSend \/ GonePing \/ GoneRetry

\* C22: a send without targets, a ping or a retry leaves the stream of every
\* removed connection as it was.
C22_NoWriteAfterRemoval ==
    [][GoneBroadcast => \A c \in Conns : Removed(c) => written'[c] = written[c]]_vars

\* A message has just been sent: the registered client received it, the client
\* that had joined before and was removed did not
C22_Witness ==
    /\ outcome.op = "send"
    /\ \E c, d \in Conns :
           /\ Removed(c)
           /\ JoinedAfter(c) < Len(calls)
           /\ \A i \in 1..Len(written[c]) : written[c][i].kind # "send"
           /\ d \in Registered
           /\ written[d][Len(written[d])] = Chunk("send", Len(calls), parseMessage(LastCall.msg, jsonEncode))
====
